---------------------------- MODULE Spec2Model ----------------------------
(***************************************************************************)
(* A model of GPUtil (src/GPUtil/GPUtil.py): the parsing of the text that  *)
(* nvidia-smi prints into GPU records (getGPUs), the availability filter   *)
(* (getAvailability), the selector (getAvailable) and the polling retry    *)
(* wrapper (getFirstAvailable).                                            *)
(*                                                                         *)
(* Text is a sequence of one-character strings, so that str.split, int()   *)
(* and float() are computed character by character.  A Python float is a   *)
(* record [nan, num, den]: NaN, or the rational num/den with den > 0       *)
(* (binary rounding of float64 is not modelled).  The line separator is    *)
(* the POSIX one, "\n".                                                    *)
(***************************************************************************)
EXTENDS Integers, Sequences, FiniteSets, TLC

VARIABLES
    gpuUuidToIdMap, \* the module-level dict uuid -> id, built at import
    smi,            \* what nvidia-smi did in the call going on: [raised, stdout]
    ps,             \* what each run of ps did in the call going on
    heldGPUs,       \* the list that the getGPUs() of the call going on returned
    pc,             \* where the client is: "idle", "returned", "raised",
                    \* or inside getFirstAvailable: "attempt", "sleep"
    op,             \* the API function called last
    args,           \* its arguments
    ret,            \* its outcome: [exc, value]
    i,              \* getFirstAvailable: the loop variable
    available,      \* getFirstAvailable: the local of that name
    selLog,         \* getFirstAvailable: what each getAvailable call returned
    nCalls,         \* getFirstAvailable: the getAvailable calls made so far
    nSleeps         \* getFirstAvailable: the time.sleep calls made so far

vars == <<gpuUuidToIdMap, smi, ps, heldGPUs, pc, op, args, ret, i, available, selLog, nCalls, nSleeps>>

(***************************************************************************)
(* Bounds of the model.                                                    *)
(***************************************************************************)
MaxGPUs == 3        \* GPUs (lines) one nvidia-smi output lists at most
MaxAttempts == 3    \* largest `attempts` passed to getFirstAvailable
MaxProcs == 2       \* compute processes one nvidia-smi output lists at most

(***************************************************************************)
(* Text.                                                                   *)
(***************************************************************************)
Digits == <<"0", "1", "2", "3", "4", "5", "6", "7", "8", "9">>
HexDigits == <<"0", "1", "2", "3", "4", "5", "6", "7", "8", "9",
               "A", "B", "C", "D", "E", "F">>
HexDigitsLower == <<"0", "1", "2", "3", "4", "5", "6", "7", "8", "9",
                    "a", "b", "c", "d", "e", "f">>

IsDigit(c) == \E k \in 1..10 : Digits[k] = c
DigitVal(c) == (CHOOSE k \in 1..10 : Digits[k] = c) - 1
IsHexDigit(c) == \E k \in 1..16 : HexDigits[k] = c \/ HexDigitsLower[k] = c
HexDigitVal(c) == (CHOOSE k \in 1..16 : HexDigits[k] = c \/ HexDigitsLower[k] = c) - 1

linesep == <<"\n">>         \* os.linesep
fieldsep == <<",", " ">>    \* the separator of line.split(", ")

\* str.split(sep): the pieces between the non-overlapping occurrences of sep,
\* found left to right; always at least one piece.
split(s, sep) ==
    LET n == Len(s)
        m == Len(sep)
        occ == {k \in 1..(n - m + 1) : SubSeq(s, k, k + m - 1) = sep}
        RECURSIVE go(_, _)
        go(from, acc) ==
            LET later == {k \in occ : k >= from}
            IN  IF later = {} THEN Append(acc, SubSeq(s, from, n))
                ELSE LET k == CHOOSE x \in later : \A y \in later : x <= y
                     IN  go(k + m, Append(acc, SubSeq(s, from, k - 1)))
    IN  go(1, <<>>)

\* sep.join(parts): how the command lays fields out on a line.
RECURSIVE join(_, _)
join(parts, sep) ==
    IF parts = <<>> THEN <<>>
    ELSE IF Len(parts) = 1 THEN parts[1]
    ELSE parts[1] \o sep \o join(Tail(parts), sep)

(***************************************************************************)
(* Numbers.                                                                *)
(***************************************************************************)
NaN == [nan |-> TRUE, num |-> 0, den |-> 1]
Float(n, d) == [nan |-> FALSE, num |-> n, den |-> d]
isnan(x) == x.nan

\* The int n as a number.  The model holds a GPU id, the one int that the
\* sort keys test with math.isnan, as a number of either kind; Python
\* compares the int n and the float of the same value as equal.
pyint(n) == Float(n, 1)

\* IEEE comparisons: every comparison with a NaN is false.
FLt(a, b) == ~a.nan /\ ~b.nan /\ a.num * b.den < b.num * a.den
FGe(a, b) == ~a.nan /\ ~b.nan /\ a.num * b.den >= b.num * a.den
FEq(a, b) == ~a.nan /\ ~b.nan /\ a.num * b.den = b.num * a.den
FIsZero(a) == ~a.nan /\ a.num = 0

\* a / b for b not zero (Python raises ZeroDivisionError for b = 0, see GPU).
FDiv(a, b) ==
    IF a.nan \/ b.nan THEN NaN
    ELSE IF b.num > 0 THEN Float(a.num * b.den, a.den * b.num)
    ELSE Float(-(a.num * b.den), a.den * (-b.num))

RECURSIVE Pow10(_)
Pow10(k) == IF k = 0 THEN 1 ELSE 10 * Pow10(k - 1)

\* The value of a run of decimal (base 10) or hexadecimal (base 16) digits.
RECURSIVE DigitsValue(_, _)
DigitsValue(s, base) ==
    IF s = <<>> THEN 0
    ELSE DigitsValue(SubSeq(s, 1, Len(s) - 1), base) * base
         + (IF base = 16 THEN HexDigitVal(s[Len(s)]) ELSE DigitVal(s[Len(s)]))

HasSign(s) == Len(s) >= 1 /\ s[1] \in {"+", "-"}
Unsigned(s) == IF HasSign(s) THEN Tail(s) ELSE s
Signed(s, v) == IF HasSign(s) /\ s[1] = "-" THEN -v ELSE v

\* int(s): an optional sign and one or more decimal digits; anything else is
\* a ValueError (ok = FALSE).
int(s) ==
    LET u == Unsigned(s)
    IN  IF Len(u) >= 1 /\ \A k \in 1..Len(u) : IsDigit(u[k])
        THEN [ok |-> TRUE, val |-> Signed(s, DigitsValue(u, 10))]
        ELSE [ok |-> FALSE, val |-> 0]

\* int(s, 16): an optional sign, an optional 0x prefix, one or more hex digits.
int16(s) ==
    LET u == Unsigned(s)
        h == IF Len(u) >= 2 /\ u[1] = "0" /\ u[2] \in {"x", "X"}
             THEN SubSeq(u, 3, Len(u)) ELSE u
    IN  IF Len(h) >= 1 /\ \A k \in 1..Len(h) : IsHexDigit(h[k])
        THEN [ok |-> TRUE, val |-> Signed(s, DigitsValue(h, 16))]
        ELSE [ok |-> FALSE, val |-> 0]

\* float(s) for decimal literals: an optional sign, digits with at most one
\* ".", at least one digit.  Anything else is a ValueError (ok = FALSE).
float(s) ==
    LET u == Unsigned(s)
        dots == {k \in 1..Len(u) : u[k] = "."}
        dot == IF dots = {} THEN Len(u) + 1 ELSE CHOOSE k \in dots : TRUE
        ip == SubSeq(u, 1, dot - 1)
        fp == SubSeq(u, dot + 1, Len(u))
    IN  IF /\ Cardinality(dots) <= 1
           /\ Len(ip) + Len(fp) >= 1
           /\ \A k \in 1..Len(ip) : IsDigit(ip[k])
           /\ \A k \in 1..Len(fp) : IsDigit(fp[k])
        THEN [ok |-> TRUE,
              val |-> Float(Signed(s, DigitsValue(ip, 10) * Pow10(Len(fp))
                                      + DigitsValue(fp, 10)),
                            Pow10(Len(fp)))]
        ELSE [ok |-> FALSE, val |-> NaN]

safeFloatCast(strNumber) ==
    LET r == float(strNumber) IN IF r.ok THEN r.val ELSE NaN

(***************************************************************************)
(* Outcomes of a call: a returned value or a raised exception.             *)
(***************************************************************************)
Return(v) == [exc |-> "", value |-> v]
Raise(e) == [exc |-> e, value |-> <<>>]
Raised(r) == r.exc # ""

(***************************************************************************)
(* class GPU.                                                              *)
(***************************************************************************)
\* GPU.__init__: the record, or ZeroDivisionError when memoryTotal is 0
\* (float(memoryUsed) / float(memoryTotal) is a Python float division).
GPU(ID, uuid, load, memoryTotal, memoryUsed, memoryFree, driver, gpu_name, serial, display_mode, display_active, temp_gpu, core_clock, memory_clock, vbios_version, power_draw, power_limit, compute_mode, pci_bus) ==
    IF FIsZero(memoryTotal) THEN Raise("ZeroDivisionError")
    ELSE Return([id |-> ID, uuid |-> uuid, load |-> load,
                 memoryUtil |-> FDiv(memoryUsed, memoryTotal),
                 memoryTotal |-> memoryTotal, memoryUsed |-> memoryUsed,
                 memoryFree |-> memoryFree, driver |-> driver,
                 name |-> gpu_name, serial |-> serial,
                 display_mode |-> display_mode,
                 display_active |-> display_active,
                 temperature |-> temp_gpu, vbios_version |-> vbios_version,
                 power_draw |-> power_draw, power_limit |-> power_limit,
                 core_clock |-> core_clock, memory_clock |-> memory_clock,
                 compute_mode |-> compute_mode, pci_bus |-> pci_bus])

(***************************************************************************)
(* getGPUs.                                                                *)
(***************************************************************************)
NumFields == 19     \* fields the query asks for, vals[0] .. vals[18]

\* The body of the for loop of getGPUs for one line: the GPU appended, or the
\* first exception raised, the statements taken in their order.  v[k + 1] is
\* vals[k]; an index past the end raises IndexError, int() a ValueError.
parseLine(line) ==
    LET v == split(line, fieldsep)
        n == Len(v)
    IN  IF ~int(v[1]).ok THEN Raise("ValueError")
        ELSE IF n < 13 THEN Raise("IndexError")
        ELSE IF ~int(v[13]).ok THEN Raise("ValueError")
        ELSE IF n < 14 THEN Raise("IndexError")
        ELSE IF ~int(v[14]).ok THEN Raise("ValueError")
        ELSE IF n < NumFields THEN Raise("IndexError")
        ELSE IF ~int16(v[19]).ok THEN Raise("ValueError")
        ELSE GPU(pyint(int(v[1]).val), v[2],
                 FDiv(safeFloatCast(v[3]), Float(100, 1)),
                 safeFloatCast(v[4]), safeFloatCast(v[5]), safeFloatCast(v[6]),
                 v[7], v[8], v[9], v[11], v[10], safeFloatCast(v[12]),
                 int(v[13]).val, int(v[14]).val, v[15],
                 safeFloatCast(v[16]), safeFloatCast(v[17]), v[18],
                 int16(v[19]).val)

\* The for loop over lines[0 .. numDevices - 1]: the list built, or the first
\* exception, which leaves the function.
RECURSIVE parseLines(_, _, _)
parseLines(lines, numDevices, GPUs) ==
    IF Len(GPUs) >= numDevices THEN Return(GPUs)
    ELSE LET r == parseLine(lines[Len(GPUs) + 1])
         IN  IF Raised(r) THEN r
             ELSE parseLines(lines, numDevices, Append(GPUs, r.value))

\* getGPUs without the try around subprocess.run.
getGPUs_NoTry(run) ==
    IF run.raised THEN Raise("FileNotFoundError")
    ELSE LET lines == split(run.stdout, linesep)
             numDevices == Len(lines) - 1
         IN  parseLines(lines, numDevices, <<>>)

\* getGPUs() when the run of nvidia-smi did `run`: [raised, stdout].
getGPUs(run) ==
    IF run.raised THEN Return(<<>>)
    ELSE LET lines == split(run.stdout, linesep)
             numDevices == Len(lines) - 1
         IN  parseLines(lines, numDevices, <<>>)

(***************************************************************************)
(* getAvailability.                                                        *)
(***************************************************************************)
Exclusive_Process == <<"E", "x", "c", "l", "u", "s", "i", "v", "e", "_",
                       "P", "r", "o", "c", "e", "s", "s">>

\* The keyword arguments of getAvailability and getAvailable at their
\* defaults.  The three exclude lists are only searched (`in`): sets here.
DefaultFilter ==
    [maxLoad |-> Float(1, 2), maxMemory |-> Float(1, 2),
     memoryFree |-> Float(0, 1), includeNan |-> FALSE,
     excludeID |-> {}, excludeUUID |-> {},
     excludeComputeMode |-> {Exclusive_Process}]

\* isAvailable with `<=` for the `<` of the load test.
isAvailable_LoadLe(gpu, a) ==
    /\ FGe(gpu.memoryFree, a.memoryFree)
    /\ (FLt(gpu.load, a.maxLoad) \/ FEq(gpu.load, a.maxLoad)
          \/ (a.includeNan /\ isnan(gpu.load)))
    /\ (FLt(gpu.memoryUtil, a.maxMemory)
          \/ (a.includeNan /\ isnan(gpu.memoryUtil)))
    /\ gpu.id \notin a.excludeID
    /\ gpu.uuid \notin a.excludeUUID
    /\ gpu.compute_mode \notin a.excludeComputeMode

\* The condition of the list comprehension for one gpu.
isAvailable(gpu, a) ==
    /\ FGe(gpu.memoryFree, a.memoryFree)
    /\ (FLt(gpu.load, a.maxLoad) \/ (a.includeNan /\ isnan(gpu.load)))
    /\ (FLt(gpu.memoryUtil, a.maxMemory)
          \/ (a.includeNan /\ isnan(gpu.memoryUtil)))
    /\ gpu.id \notin a.excludeID
    /\ gpu.uuid \notin a.excludeUUID
    /\ gpu.compute_mode \notin a.excludeComputeMode

getAvailability(GPUs, a) ==
    [g \in 1..Len(GPUs) |-> IF isAvailable(GPUs[g], a) THEN 1 ELSE 0]

(***************************************************************************)
(* getAvailable.                                                           *)
(***************************************************************************)
\* A sort key: a float, or an infinity (inf = 1 for float("inf"), -1 for
\* float("-inf")).
Key(x) == [inf |-> 0, v |-> x]
PlusInf == [inf |-> 1, v |-> Float(0, 1)]
MinusInf == [inf |-> -1, v |-> Float(0, 1)]
KeyLt(a, b) ==
    IF a.inf # 0 \/ b.inf # 0 THEN a.inf < b.inf ELSE FLt(a.v, b.v)

\* The key lambdas: float("inf") or float("-inf") (nanKey) if math.isnan(x)
\* else x.  The id that getGPUs stores is an int, of which math.isnan is
\* False; a GPU object built with a float id can hold NaN.
idKey(gpu, nanKey) == IF isnan(gpu.id) THEN nanKey ELSE Key(gpu.id)
floatKey(x, nanKey) == IF isnan(x) THEN nanKey ELSE Key(x)

\* sortOrder that ignores `reverse`.
sortOrder_NoReverse(keys, reverse) ==
    LET n == Len(keys)
        same(j, k) == ~KeyLt(keys[j], keys[k]) /\ ~KeyLt(keys[k], keys[j])
        rank(k) == Cardinality({j \in 1..n : KeyLt(keys[j], keys[k])})
                   + Cardinality({j \in 1..(k - 1) : same(j, k)}) + 1
    IN  [p \in 1..n |-> CHOOSE k \in 1..n : rank(k) = p]

\* list.sort(key, reverse) as the order of the indices: the sort is stable,
\* also with reverse=True (elements of equal keys keep their order).
sortOrder(keys, reverse) ==
    LET n == Len(keys)
        before(j, k) == IF reverse THEN KeyLt(keys[k], keys[j])
                        ELSE KeyLt(keys[j], keys[k])
        same(j, k) == ~KeyLt(keys[j], keys[k]) /\ ~KeyLt(keys[k], keys[j])
        rank(k) == Cardinality({j \in 1..n : before(j, k)})
                   + Cardinality({j \in 1..(k - 1) : same(j, k)}) + 1
    IN  [p \in 1..n |-> CHOOSE k \in 1..n : rank(k) = p]

\* The permutations of 1..n, as random.sample(range(n), n) can draw them.
Permutations1(n) ==
    {p \in [1..n -> 1..n] : \A j, k \in 1..n : j # k => p[j] # p[k]}

min(a, b) == IF a < b THEN a ELSE b

\* orderOf whose "last" branch keys a NaN id with float("inf").
orderOf_LastPlusInf(GPUs, order, perm) ==
    LET n == Len(GPUs)
    IN  IF order = "first"
        THEN sortOrder([k \in 1..n |-> idKey(GPUs[k], PlusInf)], FALSE)
        ELSE IF order = "last"
        THEN sortOrder([k \in 1..n |-> idKey(GPUs[k], PlusInf)], TRUE)
        ELSE IF order = "random"
        THEN perm
        ELSE IF order = "load"
        THEN sortOrder([k \in 1..n |-> floatKey(GPUs[k].load, PlusInf)], FALSE)
        ELSE IF order = "memory"
        THEN sortOrder([k \in 1..n |-> floatKey(GPUs[k].memoryUtil, PlusInf)],
                       FALSE)
        ELSE [k \in 1..n |-> k]

\* orderOf whose ascending branches key a NaN with float("-inf").
orderOf_NanMinusInf(GPUs, order, perm) ==
    LET n == Len(GPUs)
    IN  IF order = "first"
        THEN sortOrder([k \in 1..n |-> idKey(GPUs[k], MinusInf)], FALSE)
        ELSE IF order = "last"
        THEN sortOrder([k \in 1..n |-> idKey(GPUs[k], MinusInf)], TRUE)
        ELSE IF order = "random"
        THEN perm
        ELSE IF order = "load"
        THEN sortOrder([k \in 1..n |-> floatKey(GPUs[k].load, MinusInf)], FALSE)
        ELSE IF order = "memory"
        THEN sortOrder([k \in 1..n |-> floatKey(GPUs[k].memoryUtil, MinusInf)],
                       FALSE)
        ELSE [k \in 1..n |-> k]

\* The indices (into the list of available GPUs) in the order that the
\* `order` argument asks for; `perm` is the draw of random.sample.
orderOf(GPUs, order, perm) ==
    LET n == Len(GPUs)
    IN  IF order = "first"
        THEN sortOrder([k \in 1..n |-> idKey(GPUs[k], PlusInf)], FALSE)
        ELSE IF order = "last"
        THEN sortOrder([k \in 1..n |-> idKey(GPUs[k], MinusInf)], TRUE)
        ELSE IF order = "random"
        THEN perm
        ELSE IF order = "load"
        THEN sortOrder([k \in 1..n |-> floatKey(GPUs[k].load, PlusInf)], FALSE)
        ELSE IF order = "memory"
        THEN sortOrder([k \in 1..n |-> floatKey(GPUs[k].memoryUtil, PlusInf)],
                       FALSE)
        ELSE [k \in 1..n |-> k]

\* availableGPUs that discards nothing.
availableGPUs_All(GPUs, a) == GPUs

\* GPUs = [GPUs[g] for g in availAbleGPUindex]
availableGPUs(GPUs, a) ==
    LET GPUavailability == getAvailability(GPUs, a)
        Test(k) == GPUavailability[k] = 1
        idx == {k \in 1..Len(GPUs) : Test(k)}
        nth(p) == CHOOSE k \in idx : Cardinality({j \in idx : j < k}) = p - 1
    IN  [p \in 1..Cardinality(idx) |-> GPUs[nth(p)]]

\* GPUs[0 : min(limit, len(GPUs))] for limit >= 0.
truncate(GPUs, limit) == SubSeq(GPUs, 1, min(limit, Len(GPUs)))

\* getAvailable(order, limit, **filter) when its call of getGPUs had the
\* outcome g and random.sample drew perm.
getAvailable(g, order, limit, a, perm) ==
    IF Raised(g) THEN g
    ELSE LET GPUs == availableGPUs(g.value, a)
             o == orderOf(GPUs, order, perm)
             sorted == [p \in 1..Len(GPUs) |-> GPUs[o[p]]]
             cut == truncate(sorted, limit)
         IN  Return([p \in 1..Len(cut) |-> cut[p].id])

\* The draws random.sample can make in that call.
samples(g, order, a) ==
    IF order = "random" /\ ~Raised(g)
    THEN Permutations1(Len(availableGPUs(g.value, a)))
    ELSE {<<>>}

(***************************************************************************)
(* getGPUProcesses.                                                        *)
(***************************************************************************)
IsSpace(c) == c \in {" ", "\n", "\t"}

\* str.split() without a separator: the runs of characters that are not
\* white space.
splitWhitespace(s) ==
    LET n == Len(s)
        starts == {k \in 1..n : ~IsSpace(s[k]) /\ (k = 1 \/ IsSpace(s[k - 1]))}
        endOf(k) == CHOOSE e \in k..n :
                        /\ \A j \in k..e : ~IsSpace(s[j])
                        /\ (e = n \/ IsSpace(s[e + 1]))
        nth(p) == CHOOSE k \in starts : Cardinality({j \in starts : j < k}) = p - 1
    IN  [p \in 1..Cardinality(starts) |-> SubSeq(s, nth(p), endOf(nth(p)))]

\* The try block around the ps call: (uid, uname), or (-1, "") on any
\* exception (the run failing, not two words, a uid that is no int).
owner(run) ==
    LET w == splitWhitespace(run.stdout)
    IN  IF run.raised \/ Len(w) # 2 \/ ~int(w[1]).ok
        THEN [uid |-> -1, uname |-> <<>>]
        ELSE [uid |-> int(w[1]).val, uname |-> w[2]]

GPUProcess(pid, processName, gpuId, gpuUuid, gpuName, usedMemory, uid, uname) ==
    [pid |-> pid, processName |-> processName, gpuId |-> gpuId,
     gpuUuid |-> gpuUuid, gpuName |-> gpuName, usedMemory |-> usedMemory,
     uid |-> uid, uname |-> uname]

\* The body of the for loop of getGPUProcesses for one line: a dict lookup
\* of a missing key raises KeyError (the value is never None).
parseProcessLine(line, psRun, map) ==
    LET v == split(line, fieldsep)
    IN  IF ~int(v[1]).ok THEN Raise("ValueError")
        ELSE IF Len(v) < 5 THEN Raise("IndexError")
        ELSE IF v[3] \notin DOMAIN map THEN Raise("KeyError")
        ELSE LET o == owner(psRun)
             IN  Return(GPUProcess(int(v[1]).val, v[2], map[v[3]], v[3], v[4],
                                   safeFloatCast(v[5]), o.uid, o.uname))

RECURSIVE parseProcessLines(_, _, _, _, _)
parseProcessLines(lines, numProcesses, psRuns, map, processes) ==
    IF Len(processes) >= numProcesses THEN Return(processes)
    ELSE LET g == Len(processes) + 1
             r == parseProcessLine(lines[g], psRuns[g], map)
         IN  IF Raised(r) THEN r
             ELSE parseProcessLines(lines, numProcesses, psRuns, map,
                                    Append(processes, r.value))

\* getGPUProcesses() when nvidia-smi did `run` and the ps call for the g-th
\* line did psRuns[g].
getGPUProcesses(run, psRuns, map) ==
    IF run.raised THEN Return(<<>>)
    ELSE LET lines == split(run.stdout, linesep)
             numProcesses == Len(lines) - 1
         IN  parseProcessLines(lines, numProcesses, psRuns, map, <<>>)

\* The number of ps runs that call makes: one for every line whose body
\* gets as far as line 275, that is for every line before the first whose
\* body raises.
psRunsDone(run, psRuns, map) ==
    IF run.raised THEN 0
    ELSE LET lines == split(run.stdout, linesep)
             numProcesses == Len(lines) - 1
             fine == {m \in 0..numProcesses :
                        ~Raised(parseProcessLines(lines, m, psRuns, map, <<>>))}
         IN  Cardinality(fine) - 1

(***************************************************************************)
(* getFirstAvailable.                                                      *)
(***************************************************************************)
\* The RuntimeError raised when the attempts ran out: the parts of its
\* message.
NoGPUError(attempts, interval) ==
    [exc |-> "RuntimeError",
     value |-> [head |-> "Could not find an available GPU after ",
                attempts |-> attempts,
                mid |-> " attempts with ",
                interval |-> interval,
                tail |-> " seconds interval."]]

\* afterAttempt with `i != attempts` for `i != attempts - 1`.
afterAttempt_OffByOne(found, pass, attempts) ==
    IF found # <<>> THEN "returned"
    ELSE IF pass # attempts THEN "sleep"
    ELSE "raised"

\* afterAttempt without the break: the loop runs all its passes.
afterAttempt_NoBreak(found, pass, attempts) ==
    IF pass # attempts - 1 THEN "sleep"
    ELSE IF found # <<>> THEN "returned"
    ELSE "raised"

\* What follows the getAvailable call of pass i of the loop: `if available:
\* break` and then, `not available` being false, the return; else the sleep
\* `if i != attempts - 1`; else the loop is over and `if not available` raises.
afterAttempt(found, pass, attempts) ==
    IF found # <<>> THEN "returned"
    ELSE IF pass # attempts - 1 THEN "sleep"
    ELSE "raised"

\* The filter that getFirstAvailable hands to getAvailable: its own keyword
\* arguments, and memoryFree at getAvailable's default.
pollFilter(a) ==
    [maxLoad |-> a.maxLoad, maxMemory |-> a.maxMemory,
     memoryFree |-> Float(0, 1), includeNan |-> a.includeNan,
     excludeID |-> a.excludeID, excludeUUID |-> a.excludeUUID,
     excludeComputeMode |-> a.excludeComputeMode]

(***************************************************************************)
(* Module import: the uuid -> id map.                                      *)
(***************************************************************************)
\* The dict after `for gpu in gpus: gpuUuidToIdMap[gpu.uuid] = gpu.id` (a
\* later gpu of the same uuid overwrites); left empty when getGPUs raised
\* (except: pass).
loadMap(r) ==
    IF Raised(r) THEN [u \in {} |-> 0]
    ELSE LET gpus == r.value
             last(u) == CHOOSE k \in 1..Len(gpus) :
                            /\ gpus[k].uuid = u
                            /\ \A j \in (k + 1)..Len(gpus) : gpus[j].uuid # u
         IN  [u \in {gpus[k].uuid : k \in 1..Len(gpus)} |-> gpus[last(u)].id]

(***************************************************************************)
(* The environment: what a run of nvidia-smi can print.                    *)
(***************************************************************************)
RECURSIVE DecText(_)
DecText(n) ==
    IF n < 10 THEN <<Digits[n + 1]>>
    ELSE DecText(n \div 10) \o <<Digits[(n % 10) + 1]>>

NotAvailable == <<"[", "N", "/", "A", "]">>   \* what the tool prints for a value it lacks
Default == <<"D", "e", "f", "a", "u", "l", "t">>
Uuid(k) == <<"G", "P", "U", "-">> \o DecText(k)

\* The readings of GPU number k when it is idle: the fields that the model
\* varies, as the text printed for each.
Idle(k) ==
    [index |-> DecText(k), uuid |-> Uuid(k), util |-> DecText(10),
     total |-> DecText(100), used |-> DecText(10), free |-> DecText(90),
     temp |-> DecText(40), cclk |-> DecText(300), mclk |-> DecText(405),
     draw |-> <<"2", "5", ".", "5">>, limit |-> DecText(250),
     mode |-> Default, pci |-> <<"0", "x", "0", HexDigits[k + 1]>>]

\* The 19 fields of the query, in its order.
Fields(r) ==
    <<r.index, r.uuid, r.util, r.total, r.used, r.free, <<"5", "5", "0">>,
      <<"T", "4">>, <<"0", "3", "2">>, <<"O", "f", "f">>, <<"O", "n">>,
      r.temp, r.cclk, r.mclk, <<"9", "0", ".", "0", "4">>, r.draw, r.limit,
      r.mode, r.pci>>

Line(r) == join(Fields(r), fieldsep)

\* The output that consists of these lines, each ended by the line separator.
RECURSIVE Stdout(_)
Stdout(lines) ==
    IF lines = <<>> THEN <<>>
    ELSE lines[1] \o linesep \o Stdout(Tail(lines))

Ran(text) == [raised |-> FALSE, stdout |-> text]
RunFailed == [raised |-> TRUE, stdout |-> <<>>]   \* subprocess.run raised
NoRun == [raised |-> FALSE, stdout |-> <<"-">>]   \* no call is going on

FloatFields == {"util", "total", "used", "free", "temp", "draw", "limit"}
IntFields == {"index", "cclk", "mclk", "pci"}

\* Readings of GPU k that differ in what the availability filter looks at.
FilterReadings(k) ==
    {[Idle(k) EXCEPT !.util = u, !.used = m, !.free = f, !.mode = c] :
        u \in {DecText(10), DecText(50), DecText(90), NotAvailable},
        m \in {DecText(10), DecText(50), NotAvailable},
        f \in {DecText(90), NotAvailable},
        c \in {Default, Exclusive_Process}}

\* Readings of GPU k with one value the tool could not give, or no memory.
OddReadings(k) ==
    {[Idle(k) EXCEPT ![f] = NotAvailable] : f \in FloatFields \cup IntFields}
    \cup {[Idle(k) EXCEPT !.total = DecText(0)],
          [Idle(k) EXCEPT !.total = DecText(0), !.used = DecText(0)],
          [Idle(k) EXCEPT !.total = DecText(0), !.util = NotAvailable],
          [Idle(k) EXCEPT !.total = <<"1", "0", "0", ".", "0">>],
          [Idle(k) EXCEPT !.pci = <<"0", "x", "1", "F">>]}

\* Lines that are no GPU line: a message of the tool, a line cut short.
Message == <<"N", "o", " ", "d", "e", "v", "i", "c", "e", "s">>

BrokenLines(k) ==
    {Message,
     <<>>,
     DecText(k),
     join(SubSeq(Fields(Idle(k)), 1, 12), fieldsep),
     join(SubSeq(Fields(Idle(k)), 1, 13), fieldsep),
     join(SubSeq(Fields(Idle(k)), 1, 18), fieldsep),
     join(Append(Fields(Idle(k)), <<"x">>), fieldsep)}

\* The lines of GPUs 0 .. n-1, idle, but for line s which is `special`.
LinesWith(n, s, special) ==
    [k \in 1..n |-> IF k = s THEN special ELSE Line(Idle(k - 1))]

\* The outputs of n lines of which line s is any of the lines above.
SpecialOutputs(n, s) ==
    IF s > n THEN {}
    ELSE {Ran(Stdout(LinesWith(n, s, l))) :
            l \in {Line(r) : r \in FilterReadings(s - 1) \cup OddReadings(s - 1)}
                  \cup BrokenLines(s - 1)}

\* Outputs of up to MaxGPUs lines of which one is any of the lines above; the
\* failed run; an output whose last line lacks its line separator.
ParseOutputs ==
    {RunFailed, Ran(<<>>)}
    \cup UNION {SpecialOutputs(n, s) : n \in 1..MaxGPUs, s \in 1..MaxGPUs}
    \cup {Ran(join(LinesWith(n, 1, Line(Idle(0))), linesep)) : n \in 1..MaxGPUs}

\* What the run at import can be.
LoadOutputs ==
    {RunFailed, Ran(Stdout(<<Message>>)), Ran(Stdout(<<Line(Idle(0))>>))}

\* Readings of GPU k that make it pass or fail the default filter.
Busy(k) == [Idle(k) EXCEPT !.util = DecText(90)]

\* Outputs that list up to MaxGPUs distinct GPUs in any order, each idle or
\* busy; the failed run; the output that is a message.
SelectOutputs ==
    {RunFailed, Ran(Stdout(<<Message>>))}
    \cup UNION {
        {Ran(Stdout([k \in 1..n |-> Line(IF b[k] THEN Busy(ids[k]) ELSE Idle(ids[k]))])) :
            ids \in {f \in [1..n -> 0..(MaxGPUs - 1)] :
                        \A j, k \in 1..n : j # k => f[j] # f[k]},
            b \in [1..n -> BOOLEAN]} : n \in 0..MaxGPUs}

\* Arguments a client passes to the selector.
Orders == {"first", "last", "random", "load", "memory"}

SelectArgs ==
    [order : Orders, limit : 1..(MaxGPUs + 1),
     filter : {DefaultFilter, [DefaultFilter EXCEPT !.excludeID = {pyint(0)}]}]

\* Outputs during a poll: GPUs 0 .. n-1, each idle or busy; the failed run;
\* the output that is a message.
PollOutputs ==
    {RunFailed, Ran(Stdout(<<Message>>))}
    \cup UNION {
        {Ran(Stdout([k \in 1..n |-> Line(IF b[k] THEN Busy(k - 1) ELSE Idle(k - 1))])) :
            b \in [1..n -> BOOLEAN]} : n \in 0..MaxGPUs}

\* Arguments a client passes to the polling wrapper (verbose only prints).
PollArgs ==
    {[order |-> o, maxLoad |-> Float(1, 2), maxMemory |-> Float(1, 2),
      attempts |-> n, interval |-> t, includeNan |-> FALSE,
      excludeID |-> {}, excludeUUID |-> {},
      excludeComputeMode |-> {Exclusive_Process}] :
        o \in {"first", "last"}, n \in 0..MaxAttempts, t \in {0, 900}}

\* A line of the compute-apps query: pid, process_name, gpu_uuid, gpu_name,
\* used_memory.
ProcessLine(pid, k) ==
    join(<<DecText(pid), <<"p", "y">>, Uuid(k), <<"T", "4">>, DecText(200)>>,
         fieldsep)

\* Outputs of the compute-apps query: up to MaxProcs processes on GPU 0 or
\* 1; the failed run; the output that is a message.
ProcessOutputs ==
    {RunFailed, Ran(Stdout(<<Message>>))}
    \cup UNION {
        {Ran(Stdout([k \in 1..n |-> ProcessLine(100 + k, g[k])])) :
            g \in [1..n -> {0, 1}]} : n \in 0..MaxProcs}

\* What a run of ps -p<pid> -oruid=,ruser= can do.
PsRuns ==
    {RunFailed, Ran(<<>>),
     Ran(<<" ", "1", "0", "0", "0", " ", "a", "l", "\n">>),
     Ran(<<"?", " ", "a", "l", "\n">>)}

\* Arguments a client passes to the filter.
FilterArgs ==
    {[maxLoad |-> t[1], maxMemory |-> t[2], memoryFree |-> mf,
      includeNan |-> nn, excludeID |-> xi, excludeUUID |-> xu,
      excludeComputeMode |-> xc] :
        t \in {<<Float(1, 2), Float(1, 2)>>, <<Float(95, 100), Float(5, 100)>>},
        mf \in {Float(0, 1), Float(95, 1)},
        nn \in BOOLEAN,
        xi \in {{}, {pyint(0)}},
        xu \in {{}, {Uuid(1)}},
        xc \in {{Exclusive_Process}, {}}}

(***************************************************************************)
(* The client: one call at a time.                                         *)
(***************************************************************************)
\* The import of the module: its getGPUs() call, nvidia-smi doing `run`, and
\* the loop that fills the map.
Init ==
    \E run \in LoadOutputs :
        /\ smi = run
        /\ ps = <<>>
        /\ gpuUuidToIdMap = loadMap(getGPUs(run))
        /\ heldGPUs = <<>>
        /\ pc = "idle"
        /\ op = "import"
        /\ args = <<>>
        /\ ret = Return(<<>>)
        /\ i = 0
        /\ available = <<>>
        /\ selLog = <<>>
        /\ nCalls = 0
        /\ nSleeps = 0

pollVars == <<i, available, selLog, nCalls, nSleeps>>

\* The list that the getGPUs() of a call returned (none when it raised).
listOf(g) == IF Raised(g) THEN <<>> ELSE g.value

\* GetGPUsCall that rebuilds the uuid -> id map from the list it returns.
GetGPUsCall_Refresh(outs) ==
    /\ pc = "idle"
    /\ \E run \in outs :
        \E r \in {getGPUs(run)} :
            /\ smi' = run
            /\ heldGPUs' = listOf(r)
            /\ gpuUuidToIdMap' = loadMap(r)
            /\ op' = "getGPUs"
            /\ args' = <<>>
            /\ ret' = r
            /\ pc' = IF Raised(r) THEN "raised" ELSE "returned"
    /\ UNCHANGED <<ps, pollVars>>

\* A call of getGPUs(), nvidia-smi doing any of `outs`; the client keeps the
\* list returned.
GetGPUsCall(outs) ==
    /\ pc = "idle"
    /\ \E run \in outs :
        \E r \in {getGPUs(run)} :
            /\ smi' = run
            /\ heldGPUs' = listOf(r)
            /\ op' = "getGPUs"
            /\ args' = <<>>
            /\ ret' = r
            /\ pc' = IF Raised(r) THEN "raised" ELSE "returned"
    /\ UNCHANGED <<gpuUuidToIdMap, ps, pollVars>>

\* A call of getAvailability on the list that getGPUs returned.
GetAvailabilityCall ==
    /\ pc = "returned"
    /\ op = "getGPUs"
    /\ \E a \in FilterArgs :
        /\ args' = a
        /\ ret' = Return(getAvailability(heldGPUs, a))
    /\ op' = "getAvailability"
    /\ pc' = "returned"
    /\ UNCHANGED <<gpuUuidToIdMap, smi, ps, heldGPUs, pollVars>>

\* A call of getGPUProcesses(), nvidia-smi doing any of `outs` and the run of
\* ps for each line any of PsRuns.
GetGPUProcessesCall(outs) ==
    /\ pc = "idle"
    /\ \E run \in outs, psRuns \in [1..MaxProcs -> PsRuns] :
        \E r \in {getGPUProcesses(run, psRuns, gpuUuidToIdMap)} :
            LET used == psRunsDone(run, psRuns, gpuUuidToIdMap)
            IN  /\ \A k \in (used + 1)..MaxProcs : psRuns[k] = RunFailed
                /\ smi' = run
                /\ ps' = SubSeq(psRuns, 1, used)
                /\ op' = "getGPUProcesses"
                /\ args' = <<>>
                /\ ret' = r
                /\ pc' = IF Raised(r) THEN "raised" ELSE "returned"
    /\ UNCHANGED <<gpuUuidToIdMap, heldGPUs, pollVars>>

\* A call of getAvailable(order, limit, ...), nvidia-smi doing any of `outs`.
GetAvailableCall(outs) ==
    /\ pc = "idle"
    /\ \E run \in outs :
        \E g \in {getGPUs(run)}, a \in SelectArgs :
            \E perm \in samples(g, a.order, a.filter) :
                \E r \in {getAvailable(g, a.order, a.limit, a.filter, perm)} :
                    /\ smi' = run
                    /\ heldGPUs' = listOf(g)
                    /\ op' = "getAvailable"
                    /\ args' = a
                    /\ ret' = r
                    /\ pc' = IF Raised(r) THEN "raised" ELSE "returned"
    /\ UNCHANGED <<gpuUuidToIdMap, ps, pollVars>>

\* A call of getFirstAvailable(...): up to the first pass of the for loop.
\* With attempts = 0 the loop body never runs and `if not available` reads a
\* local that was never bound.
GetFirstAvailableCall ==
    /\ pc = "idle"
    /\ \E a \in PollArgs :
        /\ args' = a
        /\ IF a.attempts = 0
           THEN /\ pc' = "raised"
                /\ ret' = Raise("UnboundLocalError")
           ELSE /\ pc' = "attempt"
                /\ ret' = ret
    /\ op' = "getFirstAvailable"
    /\ i' = 0
    /\ available' = <<>>
    /\ selLog' = <<>>
    /\ nCalls' = 0
    /\ nSleeps' = 0
    /\ UNCHANGED <<gpuUuidToIdMap, smi, ps, heldGPUs>>

\* One pass of the loop up to the sleep: getAvailable(limit=1) on a fresh
\* output, then what afterAttempt decides.  An exception of getAvailable
\* leaves getFirstAvailable.
Attempt(outs) ==
    /\ pc = "attempt"
    /\ \E run \in outs :
        \E g \in {getGPUs(run)} :
            \E r \in {getAvailable(g, args.order, 1, pollFilter(args), <<>>)} :
                /\ smi' = run
                /\ heldGPUs' = listOf(g)
                /\ nCalls' = nCalls + 1
                /\ IF Raised(r)
                   THEN /\ ret' = r
                        /\ pc' = "raised"
                        /\ UNCHANGED <<available, selLog>>
                   ELSE /\ available' = r.value
                        /\ selLog' = Append(selLog, r.value)
                        /\ pc' = afterAttempt(r.value, i, args.attempts)
                        /\ ret' = IF pc' = "returned" THEN Return(r.value)
                                  ELSE IF pc' = "raised"
                                  THEN NoGPUError(args.attempts, args.interval)
                                  ELSE ret
    /\ UNCHANGED <<gpuUuidToIdMap, ps, op, args, i, nSleeps>>

\* time.sleep(interval), and the loop variable takes its next value.
Sleep ==
    /\ pc = "sleep"
    /\ nSleeps' = nSleeps + 1
    /\ i' = i + 1
    /\ pc' = "attempt"
    /\ smi' = NoRun
    /\ heldGPUs' = <<>>
    /\ UNCHANGED <<gpuUuidToIdMap, ps, op, args, ret, available, selLog, nCalls>>

\* The client drops the outcome of its last call.
Discard ==
    /\ pc \in {"returned", "raised"}
    /\ pc' = "idle"
    /\ op' = "none"
    /\ args' = <<>>
    /\ ret' = Return(<<>>)
    /\ i' = 0
    /\ available' = <<>>
    /\ selLog' = <<>>
    /\ nCalls' = 0
    /\ nSleeps' = 0
    /\ smi' = NoRun
    /\ ps' = <<>>
    /\ heldGPUs' = <<>>
    /\ UNCHANGED gpuUuidToIdMap

Next ==
    \/ GetGPUsCall(ParseOutputs)
    \/ GetAvailabilityCall
    \/ GetGPUProcessesCall(ProcessOutputs)
    \/ GetAvailableCall(SelectOutputs)
    \/ GetFirstAvailableCall
    \/ Attempt(PollOutputs)
    \/ Sleep
    \/ Discard

Spec == Init /\ [][Next]_vars

(***************************************************************************)
(* getAvailable as a function of the list that its getGPUs() call returns. *)
(* The key lambdas of lines 336 and 340 test math.isnan(x.id), which is    *)
(* false of the int that getGPUs stores; their NaN branches act on GPU     *)
(* objects whose id is a float.  Here the list is drawn from GPU objects   *)
(* built by the class itself, with ids 0, 1 and NaN, and getAvailable is   *)
(* applied to it.                                                          *)
(***************************************************************************)
\* GPU(...) objects: an id that is 0, 1 or NaN; a numeric load and
\* memoryUtil, or a NaN load, or a NaN memoryUtil (from a NaN memoryUsed).
SnapshotGPUs ==
    {GPU(id, Uuid(0), m[1], Float(100, 1), m[2], Float(90, 1),
         <<"5", "5", "0">>, <<"T", "4">>, <<"0", "3", "2">>, <<"O", "n">>,
         <<"O", "f", "f">>, Float(40, 1), 300, 405, <<"9", "0">>,
         Float(25, 1), Float(250, 1), Default, 0).value :
        id \in {pyint(0), pyint(1), NaN},
        m \in {<<Float(1, 10), Float(30, 1)>>, <<NaN, Float(10, 1)>>,
               <<Float(3, 10), NaN>>}}

\* The lists of up to MaxGPUs such objects.
Snapshots == UNION {[1..n -> SnapshotGPUs] : n \in 0..MaxGPUs}

\* The orders that sort.
SortOrders == {"first", "last", "load", "memory"}

\* Arguments of getAvailable: a sorting order, limit 1 or MaxGPUs, the
\* default filter or the one that admits NaN.
SnapshotArgs ==
    [order : SortOrders, limit : {1, MaxGPUs},
     filter : {DefaultFilter, [DefaultFilter EXCEPT !.includeNan = TRUE]}]

SnapshotInit ==
    \E GPUs \in Snapshots :
        /\ smi = NoRun
        /\ ps = <<>>
        /\ gpuUuidToIdMap = loadMap(Raise("ValueError"))
        /\ heldGPUs = GPUs
        /\ pc = "idle"
        /\ op = "import"
        /\ args = <<>>
        /\ ret = Return(<<>>)
        /\ i = 0
        /\ available = <<>>
        /\ selLog = <<>>
        /\ nCalls = 0
        /\ nSleeps = 0

\* getAvailable(order, limit, ...) whose getGPUs() call returns heldGPUs.
GetAvailableOnSnapshot ==
    /\ pc = "idle"
    /\ \E a \in SnapshotArgs :
        \E r \in {getAvailable(Return(heldGPUs), a.order, a.limit, a.filter, <<>>)} :
            /\ op' = "getAvailable"
            /\ args' = a
            /\ ret' = r
            /\ pc' = "returned"
    /\ UNCHANGED <<gpuUuidToIdMap, smi, ps, heldGPUs, pollVars>>

SnapshotNext == GetAvailableOnSnapshot

SnapshotSpec == SnapshotInit /\ [][SnapshotNext]_vars

(***************************************************************************)
(* Properties.                                                             *)
(***************************************************************************)
Finished == pc \in {"returned", "raised"}

\* The indices of heldGPUs that the filter `a` marks available.
Survivors(a) ==
    {k \in 1..Len(heldGPUs) : getAvailability(heldGPUs, a)[k] = 1}

\* The lines of the output that the for loop of getGPUs reads, each as its
\* fields.
ReadLines ==
    LET lines == split(smi.stdout, linesep)
    IN  [k \in 1..(Len(lines) - 1) |-> split(lines[k], fieldsep)]

FloatColumns == {3, 4, 5, 6, 12, 16, 17}    \* vals[2..5], vals[11], vals[15..16]
IntColumns == {1, 13, 14}                   \* vals[0], vals[12], vals[13]
HexColumns == {19}                          \* vals[18]

\* The columns of a 19-field line whose text is no number of the kind asked.
BadColumns(v) ==
    {c \in FloatColumns : ~float(v[c]).ok}
    \cup {c \in IntColumns : ~int(v[c]).ok}
    \cup {c \in HexColumns : ~int16(v[c]).ok}

\* The attribute of a GPU record that holds float column c.
FloatAttr(gpu, c) ==
    CASE c = 3 -> gpu.load
      [] c = 4 -> gpu.memoryTotal
      [] c = 5 -> gpu.memoryUsed
      [] c = 6 -> gpu.memoryFree
      [] c = 12 -> gpu.temperature
      [] c = 16 -> gpu.power_draw
      [] c = 17 -> gpu.power_limit

\* C1: getAvailability returns a mask as long as GPUs in which entry k is 1
\* exactly when GPUs[k] meets all six conditions; the load and memory tests
\* are strict; with the default arguments a GPU in Exclusive_Process mode is
\* excluded.
C1_AvailabilityMask ==
    (pc = "returned" /\ op = "getAvailability") =>
        /\ Len(ret.value) = Len(heldGPUs)
        /\ \A k \in 1..Len(heldGPUs) :
            LET gpu == heldGPUs[k]
            IN  /\ ret.value[k] \in {0, 1}
                /\ ret.value[k] = 1 <=>
                      /\ FGe(gpu.memoryFree, args.memoryFree)
                      /\ FLt(gpu.load, args.maxLoad)
                            \/ (args.includeNan /\ gpu.load.nan)
                      /\ FLt(gpu.memoryUtil, args.maxMemory)
                            \/ (args.includeNan /\ gpu.memoryUtil.nan)
                      /\ gpu.id \notin args.excludeID
                      /\ gpu.uuid \notin args.excludeUUID
                      /\ gpu.compute_mode \notin args.excludeComputeMode
                /\ FEq(gpu.load, args.maxLoad) => ret.value[k] = 0
                /\ FEq(gpu.memoryUtil, args.maxMemory) => ret.value[k] = 0
                /\ (args = DefaultFilter /\ gpu.compute_mode = Exclusive_Process)
                      => ret.value[k] = 0

\* A mask with a 1 and with a 0 for a GPU whose load is exactly maxLoad and
\* which meets the other five conditions.
C1_Witness ==
    /\ pc = "returned"
    /\ op = "getAvailability"
    /\ \E j, k \in 1..Len(heldGPUs) :
        /\ ret.value[j] = 1
        /\ ret.value[k] = 0
        /\ FEq(heldGPUs[k].load, args.maxLoad)
        /\ FGe(heldGPUs[k].memoryFree, args.memoryFree)
        /\ FLt(heldGPUs[k].memoryUtil, args.maxMemory)
        /\ heldGPUs[k].id \notin args.excludeID
        /\ heldGPUs[k].uuid \notin args.excludeUUID
        /\ heldGPUs[k].compute_mode \notin args.excludeComputeMode

\* C2: when every getAvailable call returns an empty list, getFirstAvailable
\* (attempts >= 1) never returns, calls getAvailable at most `attempts` times,
\* has slept once less than it has called (once per call while the next call
\* is pending), and ends exactly when it has called `attempts` times, raising
\* the RuntimeError whose message carries attempts and interval.
C2_Exhausted ==
    (/\ op = "getFirstAvailable"
     /\ args.attempts >= 1
     /\ nCalls = Len(selLog)
     /\ \A k \in 1..Len(selLog) : selLog[k] = <<>>) =>
        /\ pc # "returned"
        /\ nCalls <= args.attempts
        /\ nSleeps = (IF pc = "attempt" THEN nCalls ELSE nCalls - 1)
        /\ nSleeps <= args.attempts - 1
        /\ pc = "raised" <=> nCalls = args.attempts
        /\ pc = "raised" =>
              /\ ret = NoGPUError(args.attempts, args.interval)
              /\ ret.value.attempts = args.attempts
              /\ ret.value.interval = args.interval

\* Three attempts, all empty, interval 0: three calls, two sleeps, the error.
C2_Witness ==
    /\ op = "getFirstAvailable"
    /\ pc = "raised"
    /\ ret.exc = "RuntimeError"
    /\ args.attempts = 3
    /\ args.interval = 0
    /\ selLog = <<<<>>, <<>>, <<>>>>
    /\ nCalls = 3
    /\ nSleeps = 2

\* C3: in getFirstAvailable no getAvailable call follows one that returned a
\* non-empty list; when call k is the first to return one, the function has
\* returned exactly that list, of one id, after k calls and k - 1 sleeps and
\* without an error; and it returns in no other way.
C3_FirstFound ==
    (op = "getFirstAvailable" /\ args.attempts >= 1) =>
        /\ \A k \in 1..(Len(selLog) - 1) : selLog[k] = <<>>
        /\ (Len(selLog) >= 1 /\ selLog[Len(selLog)] # <<>>) =>
              /\ pc = "returned"
              /\ ret.exc = ""
              /\ ret.value = selLog[Len(selLog)]
              /\ Len(ret.value) = 1
              /\ nCalls = Len(selLog)
              /\ nCalls <= args.attempts
              /\ nSleeps = nCalls - 1
        /\ pc = "returned" => (Len(selLog) >= 1 /\ selLog[Len(selLog)] # <<>>)

\* A GPU found by the second of three attempts: two calls, one sleep.
C3_Witness ==
    /\ op = "getFirstAvailable"
    /\ pc = "returned"
    /\ args.attempts = 3
    /\ Len(selLog) = 2
    /\ selLog[1] = <<>>
    /\ ret.value = selLog[2]
    /\ nCalls = 2
    /\ nSleeps = 1

\* C4: getAvailable with order "first" returns the min(limit, n) smallest ids
\* of the n available GPUs in ascending order, with order "last" the
\* min(limit, n) largest in descending order, however the output lists them.
C4_FirstLastOrder ==
    (pc = "returned" /\ op = "getAvailable" /\ args.order \in {"first", "last"}) =>
        LET S == {heldGPUs[k].id : k \in Survivors(args.filter)}
            r == ret.value
            R == {r[p] : p \in 1..Len(r)}
        IN  /\ Len(r) = min(args.limit, Cardinality(S))
            /\ R \subseteq S
            /\ \A p \in 1..(Len(r) - 1) :
                  IF args.order = "first" THEN FLt(r[p], r[p + 1])
                  ELSE FLt(r[p + 1], r[p])
            /\ \A x \in S \ R : \A y \in R :
                  IF args.order = "first" THEN FLt(y, x) ELSE FLt(x, y)

\* GPUs listed as 2, 0, 1, all available: order "first" returns 0, 1, 2.
C4_Witness ==
    /\ pc = "returned"
    /\ op = "getAvailable"
    /\ args.order = "first"
    /\ Len(heldGPUs) = 3
    /\ [k \in 1..3 |-> heldGPUs[k].id] = <<pyint(2), pyint(0), pyint(1)>>
    /\ Survivors(args.filter) = {1, 2, 3}
    /\ ret.value = <<pyint(0), pyint(1), pyint(2)>>

\* C5: for each of the five orders getAvailable returns min(limit, n) ids, n
\* the number of GPUs the filter marks available; each is the id of an
\* available GPU, no GPU is returned twice, and a limit of n or more returns
\* all n.
C5_LimitAndMembership ==
    (pc = "returned" /\ op = "getAvailable" /\ args.order \in Orders) =>
        LET surv == Survivors(args.filter)
            n == Cardinality(surv)
            r == ret.value
        IN  /\ args.limit >= 1
            /\ Len(r) = min(args.limit, n)
            /\ \E f \in [1..Len(r) -> surv] :
                  /\ \A p \in 1..Len(r) : heldGPUs[f[p]].id = r[p]
                  /\ \A p, q \in 1..Len(r) : p # q => f[p] # f[q]
            /\ args.limit >= n =>
                  {r[p] : p \in 1..Len(r)} = {heldGPUs[k].id : k \in surv}

\* Order "random", three available GPUs of which one is not, limit 2: the
\* result starts with the survivor listed last, then the one listed first.
C5_Witness ==
    /\ pc = "returned"
    /\ op = "getAvailable"
    /\ args.order = "random"
    /\ args.limit = 2
    /\ Len(heldGPUs) = 3
    /\ Survivors(args.filter) = {1, 3}
    /\ ret.value = <<heldGPUs[3].id, heldGPUs[1].id>>

\* C6: when the run of nvidia-smi fails or prints nothing, getGPUs,
\* getGPUProcesses and getAvailable each return an empty list.
C6_FailedRunGivesEmpty ==
    (/\ op \in {"getGPUs", "getGPUProcesses", "getAvailable"}
     /\ Finished
     /\ (smi.raised \/ smi.stdout = <<>>)) =>
        (pc = "returned" /\ ret = Return(<<>>))

\* getAvailable returned the empty list after a run that failed.
C6_Witness ==
    /\ op = "getAvailable"
    /\ pc = "returned"
    /\ smi.raised
    /\ ret.value = <<>>

\* C7: when nvidia-smi runs and a line that getGPUs reads has fewer than
\* the 19 fields (a message, a line cut short), getGPUs returns an empty
\* list and raises nothing.
C7_MalformedSwallowed ==
    (/\ op = "getGPUs"
     /\ Finished
     /\ ~smi.raised
     /\ \E k \in 1..Len(ReadLines) : Len(ReadLines[k]) < NumFields) =>
        (pc = "returned" /\ ret = Return(<<>>))

\* C8: when every line read has the 19 fields, at most one numeric field
\* (float, int or hex) that does not parse, and a memory total that is not
\* zero, getGPUs returns a record for every line.
C8_SingleFieldTolerated ==
    (/\ op = "getGPUs"
     /\ Finished
     /\ ~smi.raised
     /\ \A k \in 1..Len(ReadLines) :
          /\ Len(ReadLines[k]) = NumFields
          /\ Cardinality(BadColumns(ReadLines[k])) <= 1
          /\ ~FIsZero(safeFloatCast(ReadLines[k][4]))) =>
        (pc = "returned" /\ Len(ret.value) = Len(ReadLines))

\* C9: when every line read has the 19 fields and its int and hex fields
\* parse, and some float field of some line is no number, getGPUs returns a
\* record for every line in which each such field is NaN (load for the
\* utilization); and the filter marks a GPU of NaN load available only when
\* includeNan is true.
C9_FloatFieldNaN ==
    /\ (/\ op = "getGPUs"
        /\ Finished
        /\ ~smi.raised
        /\ \A k \in 1..Len(ReadLines) :
             /\ Len(ReadLines[k]) = NumFields
             /\ BadColumns(ReadLines[k]) \subseteq FloatColumns
        /\ \E k \in 1..Len(ReadLines) : BadColumns(ReadLines[k]) # {}) =>
           /\ pc = "returned"
           /\ Len(ret.value) = Len(ReadLines)
           /\ \A k \in 1..Len(ReadLines) : \A c \in BadColumns(ReadLines[k]) :
                 isnan(FloatAttr(ret.value[k], c))
    /\ (pc = "returned" /\ op = "getAvailability") =>
           \A k \in 1..Len(heldGPUs) :
              (isnan(heldGPUs[k].load) /\ ret.value[k] = 1) => args.includeNan

\* C10: when every line read has the 19 fields and its int and hex fields
\* parse, getGPUs returns a record for every line, whose memoryUtil is
\* memoryUsed / memoryTotal, and NaN when memoryTotal is zero.
C10_MemoryUtil ==
    (/\ op = "getGPUs"
     /\ Finished
     /\ ~smi.raised
     /\ \A k \in 1..Len(ReadLines) :
          /\ Len(ReadLines[k]) = NumFields
          /\ BadColumns(ReadLines[k]) \subseteq FloatColumns) =>
        /\ pc = "returned"
        /\ Len(ret.value) = Len(ReadLines)
        /\ \A k \in 1..Len(ret.value) :
            LET gpu == ret.value[k]
            IN  /\ FIsZero(gpu.memoryTotal) => isnan(gpu.memoryUtil)
                /\ (~isnan(gpu.memoryTotal) /\ ~isnan(gpu.memoryUsed)
                    /\ ~FIsZero(gpu.memoryTotal)) =>
                      gpu.memoryUtil.num * gpu.memoryTotal.num * gpu.memoryUsed.den
                        = gpu.memoryUsed.num * gpu.memoryUtil.den * gpu.memoryTotal.den

\* The lines of the output that the for loop of getGPUProcesses reads, each
\* as its fields.
ReadProcessLines ==
    LET lines == split(smi.stdout, linesep)
    IN  [k \in 1..(Len(lines) - 1) |-> split(lines[k], fieldsep)]

\* getGPUProcesses ended after an output all of whose lines have the five
\* fields and a pid that is an int.
ProcessLinesWellFormed ==
    /\ op = "getGPUProcesses"
    /\ Finished
    /\ ~smi.raised
    /\ \A k \in 1..Len(ReadProcessLines) :
          /\ Len(ReadProcessLines[k]) = 5
          /\ int(ReadProcessLines[k][1]).ok

\* The ps run of an owner lookup that fails: it cannot run, or prints
\* nothing, or prints what is no uid and name.
OwnerLookupFails(run) ==
    \/ run.raised
    \/ Len(splitWhitespace(run.stdout)) # 2
    \/ ~int(splitWhitespace(run.stdout)[1]).ok

\* C11: getGPUProcesses, given well-formed process lines, returns one record
\* per line and raises nothing, and the record of a line whose gpu uuid is no
\* key of gpuUuidToIdMap has gpuId = -1.
C11_UnknownUuidGivesMinusOne ==
    ProcessLinesWellFormed =>
        /\ pc = "returned"
        /\ Len(ret.value) = Len(ReadProcessLines)
        /\ \A k \in 1..Len(ReadProcessLines) :
              ReadProcessLines[k][3] \notin DOMAIN gpuUuidToIdMap =>
                  ret.value[k].gpuId = pyint(-1)

\* C12: when getGPUProcesses, given well-formed process lines, makes an
\* owner lookup that fails, it returns one record per line in the order of
\* the lines, and the record of every line whose lookup failed has uid = -1
\* and an empty uname.
C12_OwnerDefaults ==
    (/\ ProcessLinesWellFormed
     /\ \E k \in 1..Len(ps) : OwnerLookupFails(ps[k])) =>
        /\ pc = "returned"
        /\ Len(ret.value) = Len(ReadProcessLines)
        /\ \A k \in 1..Len(ReadProcessLines) :
              /\ ret.value[k].pid = int(ReadProcessLines[k][1]).val
              /\ OwnerLookupFails(ps[k]) =>
                    (ret.value[k].uid = -1 /\ ret.value[k].uname = <<>>)

\* The attribute that `order` sorts by.
SortAttr(gpu, order) ==
    CASE order \in {"first", "last"} -> gpu.id
      [] order = "load" -> gpu.load
      [] order = "memory" -> gpu.memoryUtil

\* x stands strictly before y: in the numeric order (ascending, or
\* descending), a NaN standing after every number (or before, if nanFirst).
StrictlyBefore(x, y, descending, nanFirst) ==
    IF x.nan \/ y.nan
    THEN IF nanFirst THEN x.nan /\ ~y.nan ELSE ~x.nan /\ y.nan
    ELSE IF descending THEN FLt(y, x) ELSE FLt(x, y)

\* The ids that getAvailable returned are those of the first min(limit, n)
\* of the n available GPUs of heldGPUs in an order that respects
\* StrictlyBefore on the attribute sorted by.
ReturnedInOrder(descending, nanFirst) ==
    LET surv == Survivors(args.filter)
        r == ret.value
        attr(k) == SortAttr(heldGPUs[k], args.order)
    IN  /\ Len(r) = min(args.limit, Cardinality(surv))
        /\ \E f \in [1..Len(r) -> surv] :
              /\ \A p, q \in 1..Len(r) : p # q => f[p] # f[q]
              /\ \A p \in 1..Len(r) : heldGPUs[f[p]].id = r[p]
              /\ \A p, q \in 1..Len(r) :
                    p < q => ~StrictlyBefore(attr(f[q]), attr(f[p]),
                                             descending, nanFirst)
              /\ \A k \in surv \ {f[p] : p \in 1..Len(r)} : \A p \in 1..Len(r) :
                    ~StrictlyBefore(attr(k), attr(f[p]), descending, nanFirst)

C14_AscendingNanLast ==
    (/\ pc = "returned"
     /\ op = "getAvailable"
     /\ args.order \in {"load", "memory", "first"}) =>
        /\ ReturnedInOrder(FALSE, FALSE)
        /\ \A k \in Survivors(args.filter) :
              (isnan(heldGPUs[k].load) \/ isnan(heldGPUs[k].memoryUtil))
                  => args.filter.includeNan

\* Loads listed as NaN, 0.3, 0.1, with ids 0, 1, NaN, includeNan true, order
\* "load", limit 3: the result is the ids NaN, 1, 0 (loads 0.1, 0.3, NaN).
C14_Witness ==
    /\ pc = "returned"
    /\ op = "getAvailable"
    /\ args.order = "load"
    /\ args.filter.includeNan
    /\ Len(heldGPUs) = 3
    /\ [k \in 1..3 |-> heldGPUs[k].load] = <<NaN, Float(3, 10), Float(1, 10)>>
    /\ [k \in 1..3 |-> heldGPUs[k].id] = <<pyint(0), pyint(1), NaN>>
    /\ Survivors(args.filter) = {1, 2, 3}
    /\ ret.value = <<NaN, pyint(1), pyint(0)>>

\* C15: gpuUuidToIdMap is what the import of the module built from its own
\* getGPUs() call (empty when that run failed or its output did not parse);
\* no call of getGPUs, getGPUProcesses, getAvailability, getAvailable or
\* getFirstAvailable changes it; and what getGPUs returns is a function of
\* the nvidia-smi run alone.
C15_MapWrittenOnce ==
    /\ [](op = "import" =>
            /\ gpuUuidToIdMap = loadMap(getGPUs(smi))
            /\ (smi.raised \/ Raised(getGPUs(smi))) => DOMAIN gpuUuidToIdMap = {})
    /\ [][gpuUuidToIdMap' = gpuUuidToIdMap]_vars
    /\ []((op = "getGPUs" /\ Finished) => ret = getGPUs(smi))

\* The map was loaded with GPU-0 alone; a later getGPUs() call returned a
\* list with a GPU of another uuid, and the map still has GPU-0 alone.
C15_Witness ==
    /\ op = "getGPUs"
    /\ pc = "returned"
    /\ DOMAIN gpuUuidToIdMap = {Uuid(0)}
    /\ \E k \in 1..Len(heldGPUs) : heldGPUs[k].uuid \notin DOMAIN gpuUuidToIdMap

=============================================================================
